---------------------------- MODULE Spec2Model ----------------------------
(***************************************************************************)
(* The concurrent document-transformation pipeline of the SAOL tools.      *)
(*                                                                         *)
(* Two near-duplicate programs share one structure:                        *)
(*   "article": src/clean_saol_json.go   (one cleaned article per entry)   *)
(*   "lemma"  : src/unnamed/part_000     (flattened lemmas with familyID)  *)
(* main launches the workers and the collector, streams the input array    *)
(* into the jobs channel, closes it, waits for the workers, closes the     *)
(* results channel, waits for the collector, sorts the buffer by Index and *)
(* assembles the sequentially keyed output.                                *)
(*                                                                         *)
(* The input file is a JSON array of complete JSON values.  An element is  *)
(* abstracted to its kind (what the decoder, the HTML parser and the       *)
(* selectors make of it); its zero-based position in the array stands for  *)
(* its text.                                                               *)
(***************************************************************************)
EXTENDS Integers, Sequences, FiniteSets, TLC

(* ------------------------------ bounds -------------------------------- *)
MaxLen == 3       \* longest input array
MaxWorkers == 2   \* largest runtime.NumCPU()
MaxCap == 1       \* small channel capacities explored: 0 (unbuffered)..MaxCap

(* ------------------------- program constants -------------------------- *)
numWorkers == 0
channelBufferSize == 100

Variants == {"article", "lemma"}

\* What an element of the input array can be:
\*   "bad"   a JSON value that does not decode into InputEntry
\*   "perr"  decodes; goquery.NewDocumentFromReader fails
\*   "noart" decodes and parses; no div.article
\*   "herr"  has div.article with one div.lemma; Html() fails on its nodes
\*   "art0", "art1", "art2"  has div.article with 0, 1, 2 div.lemma
Kinds == {"bad", "perr", "noart", "herr", "art0", "art1", "art2"}

VARIABLES
    variant,           \* which of the two programs runs
    input,             \* the elements of the input array (kinds)
    workers,           \* number of worker goroutines
    chanCap,           \* capacity of jobs and of results (make(chan, n))
    pcMain,            \* position of main
    rd,                \* decoder: number of array elements consumed
    index,             \* main's index counter
    jobs,              \* jobs channel buffer
    jobsClosed,
    results,           \* results channel buffer
    resultsClosed,
    wstate,            \* per worker: "recv", "send", "done"
    wjob,              \* per worker: the job it holds
    cstate,            \* collector: "run", "done"
    collectedResults,  \* the collector's buffer
    finalOutput,       \* map outputKey -> entry
    written,           \* the encoded output (what reached outFile)
    panicked,          \* a goroutine panicked (send on closed channel)
    dispatched,        \* history: Jobs sent on jobs
    recvCnt,           \* history: Index -> times a worker received it
    sentCnt,           \* history: Index -> Results sent for it
    sentErr,           \* history: Indexes whose Result carried an error
    arrival,           \* history: Indexes in the order the collector got them
    decodeSkipped,     \* log: indexes logged "Error decoding JSON object"
    errLogged          \* log: indexes logged "Worker Error"

\* The brackets of the input array, as the decoder's Token() meets them.
VARIABLES
    startOK,           \* the first token of the input is '['
    tail,              \* after the last element: "close" (']'), "eof", "junk"
    arrayOpen,         \* main has read the opening token
    endLog             \* what main logged about the closing token

\* The category stage (src/unnamed/part_001), which reads the flattened
\* lemmas written by part_000.
VARIABLES
    inputMap,          \* the decoded flattened_lemmas.json: key -> lemma
    pcCat,             \* position of part_001's main
    pending,           \* keys `range inputMap` has not yielded yet
    matchingHTMLs,     \* FilterLemmasByOrdklass: the lemmas kept, in order
    nouns,             \* main: parseSubstantiv results
    verbs,             \* main: parseVerbForms results
    adjectives,        \* main: parseAdjektiv results
    ci,                \* main: number of matchingHTMLs already classified
    files              \* the JSON files written: name -> content

pipeVars == << variant, input, workers, chanCap, pcMain, rd, index, jobs,
               jobsClosed, results, resultsClosed, wstate, wjob, cstate,
               collectedResults, finalOutput, written, panicked, dispatched,
               recvCnt, sentCnt, sentErr, arrival, decodeSkipped, errLogged,
               startOK, tail, arrayOpen, endLog >>

catVars == << inputMap, pcCat, pending, matchingHTMLs, nouns, verbs,
              adjectives, ci, files >>

vars == << pipeVars, catVars >>

NoJob == [Index |-> -1, Data |-> [pos |-> -1, kind |-> "none"]]
NoOutput == << >>

Inputs == UNION { [1..n -> Kinds] : n \in 0..MaxLen }

\* The InputEntry the decoder yields for the element at 1-based place i.
Entry(i) == [pos |-> i - 1, kind |-> input[i]]


(* ------------------------- encoding/json decoder ---------------------- *)
\* decoder.More(): another element before the closing bracket.
More == rd < Len(input)

\* decoder.Decode(&entry) fails on a value that is not an InputEntry (a
\* number, a string, an object whose "html" is not a string); the decoder
\* has then consumed that whole value and stays usable.  Text that is not
\* a complete JSON value is not an element and is outside this model.
DecodeFails(i) == input[i] = "bad"

\* The elements the decoder has consumed after an iteration that failed to
\* decode element rd+1.  part_000 follows the failed Decode(&entry) by
\* Decode(&raw), which reads one more value when there is one (at the end
\* of the array it fails without consuming); clean_saol_json.go does not.
AfterDecodeError ==
    IF variant = "lemma" /\ rd + 1 < Len(input) THEN rd + 2 ELSE rd + 1

(* ------------------------------- worker ------------------------------- *)
LemmaHTML(pos, j) == << "lemma", pos, j >>
ArticleHTML(pos) == << "article", pos >>
EmptyHTML == << >>

\* Number of div.lemma nodes under the first div.article.
LemmaCount(kind) ==
    CASE kind = "art0" -> 0
      [] kind = "art1" -> 1
      [] kind = "art2" -> 2
      [] kind = "herr" -> 1
      [] OTHER -> 0

\* The lemmas appended by lemmaSelection.Each: those whose Html() succeeds.
LemmasOf(data) ==
    IF data.kind = "herr" THEN << >>
    ELSE [j \in 1..LemmaCount(data.kind) |-> LemmaHTML(data.pos, j)]

\* A worker that reports a missing div.article as a failure.
LemmaResultNoArticleFails(job) ==
    IF job.Data.kind \in {"perr", "noart"}
    THEN [Index |-> job.Index, LemmaHTMLs |-> << >>,
          Error |-> "failed to parse HTML"]
    ELSE [Index |-> job.Index, LemmaHTMLs |-> LemmasOf(job.Data),
          Error |-> "nil"]

\* part_000 worker: the Result for one job.
LemmaResult(job) ==
    IF job.Data.kind = "perr"
    THEN [Index |-> job.Index, LemmaHTMLs |-> << >>,
          Error |-> "failed to parse HTML"]
    ELSE IF job.Data.kind = "noart"
    THEN [Index |-> job.Index, LemmaHTMLs |-> << >>, Error |-> "nil"]
    ELSE [Index |-> job.Index, LemmaHTMLs |-> LemmasOf(job.Data),
          Error |-> "nil"]

\* clean_saol_json.go worker: the Result for one job.
ArticleResult(job) ==
    IF job.Data.kind = "perr"
    THEN [Index |-> job.Index, CleanedHTML |-> EmptyHTML,
          Error |-> "failed to parse HTML"]
    ELSE IF job.Data.kind = "noart"
    THEN [Index |-> job.Index, CleanedHTML |-> EmptyHTML, Error |-> "nil"]
    ELSE IF job.Data.kind = "herr"
    THEN [Index |-> job.Index, CleanedHTML |-> EmptyHTML,
          Error |-> "failed to get inner HTML"]
    ELSE [Index |-> job.Index, CleanedHTML |-> ArticleHTML(job.Data.pos),
          Error |-> "nil"]

ResultOf(job) ==
    IF variant = "lemma" THEN LemmaResult(job) ELSE ArticleResult(job)

\* A worker that returns after a failed Job instead of continuing.
ReturnOnError(res) == IF res.Error # "nil" THEN "done" ELSE "recv"

\* Where the worker goes after its send: every branch of the loop body
\* ends in `continue` (or the end of the body), back to `range jobs`.
AfterSend(res) == "recv"

\* A loop that stops as soon as jobs is closed, buffered jobs or not.
JobsClosedOnly == jobsClosed

\* `for job := range jobs` ends when jobs is closed and drained.
JobsDrained == jobsClosed /\ jobs = << >>

(* ------------------------------ collector ----------------------------- *)
\* A collector that appends every Result, failed or not.
KeepsAll(res) == TRUE

\* The collector keeps a Result unless it carries an error.
Keeps(res) == res.Error = "nil"

\* A collector that appends a kept Result twice.
CollectedTwice(buf, res) ==
    IF Keeps(res) THEN Append(Append(buf, res), res) ELSE buf

\* The buffer after the collector handled res.
Collected(buf, res) == IF Keeps(res) THEN Append(buf, res) ELSE buf

\* `for res := range results` ends when results is closed and drained.
ResultsDrained == resultsClosed /\ results = << >>

(* --------------------------- reconcile, assemble ---------------------- *)
\* close(results) without waiting for the workers.
NoWorkerJoin == TRUE

\* Waiting for the collector as well before results is closed.
JoinedWithCollector ==
    (\A w \in 1..workers : wstate[w] = "done") /\ cstate = "done"

\* wg.Wait(): every worker has run its deferred wg.Done().
WorkersJoined == \A w \in 1..workers : wstate[w] = "done"

\* The sort started without waiting for the collector.
NoCollectorJoin == TRUE

\* collectorWg.Wait()
CollectorJoined == cstate = "done"

\* The comparison turned around.
Greater(a, b) == a.Index > b.Index

Less(a, b) == a.Index < b.Index

IsOrdered(s) == \A i, j \in 1..Len(s) : i < j => ~Less(s[j], s[i])

Orderings(buf) ==
    { [i \in 1..Len(buf) |-> buf[p[i]]] :
        p \in { q \in [1..Len(buf) -> 1..Len(buf)] :
                  \A i, j \in 1..Len(buf) : i # j => q[i] # q[j] } }

\* The buffer left in completion order.
Unsorted(buf) == {buf}

\* sort.Slice by Index: some permutation of the buffer ordered by Less
\* (the sort is not stable, so any such permutation may come out).
SortSlice(buf) == { s \in Orderings(buf) : IsOrdered(s) }

\* finalOutput[key] = entry
MapSet(m, key, entry) ==
    [k \in DOMAIN m \cup {key} |-> IF k = key THEN entry ELSE m[k]]

\* Keys counted from zero.
ZeroBasedKey == 1 - 1

FirstOutputKey == 1

\* The back-reference without the offset.
FamilyIDIsIndex(res) == res.Index

FamilyID(res) == res.Index + 1

RECURSIVE FlattenLemmas(_, _, _, _, _)
\* the inner loop over res.LemmaHTMLs, from lemma j on
FlattenLemmas(out, outputKey, familyID, lemmas, j) ==
    IF j > Len(lemmas) THEN [out |-> out, outputKey |-> outputKey]
    ELSE FlattenLemmas(
            MapSet(out, outputKey, [HTML |-> lemmas[j], FamilyID |-> familyID]),
            outputKey + 1, familyID, lemmas, j + 1)

RECURSIVE AssembleLemmas(_, _, _, _)
\* part_000: the loop over collectedResults, from result i on
AssembleLemmas(buf, i, out, outputKey) ==
    IF i > Len(buf) THEN out
    ELSE LET r == FlattenLemmas(out, outputKey, FamilyID(buf[i]),
                                buf[i].LemmaHTMLs, 1)
         IN AssembleLemmas(buf, i + 1, r.out, r.outputKey)

RECURSIVE AssembleArticles(_, _, _, _)
\* clean_saol_json.go: the loop over collectedResults, from result i on
AssembleArticles(buf, i, out, outputKey) ==
    IF i > Len(buf) THEN out
    ELSE AssembleArticles(buf, i + 1,
                          MapSet(out, outputKey, buf[i].CleanedHTML),
                          outputKey + 1)

Assembled(buf) ==
    IF variant = "lemma"
    THEN AssembleLemmas(buf, 1, << >>, FirstOutputKey)
    ELSE AssembleArticles(buf, 1, << >>, FirstOutputKey)

(* ------------------------------ bookkeeping --------------------------- *)
Cnt(f, i) == IF i \in DOMAIN f THEN f[i] ELSE 0
Inc(f, i) == [k \in DOMAIN f \cup {i} |-> IF k = i THEN Cnt(f, i) + 1 ELSE f[k]]

(* -------------------------------- Init -------------------------------- *)
\* workers := numWorkers; if workers <= 0 { workers = runtime.NumCPU() }
WorkerCounts == IF numWorkers <= 0 THEN 1..MaxWorkers ELSE {numWorkers}

\* make(chan Job, channelBufferSize), make(chan Result, channelBufferSize):
\* the capacity of the source, and the small capacities at which the
\* sends block on inputs of the size explored.
Capacities == (0..MaxCap) \cup {channelBufferSize}

\* part_001 not running.
CatIdle ==
    /\ inputMap = << >>
    /\ pcCat = "off"
    /\ pending = {}
    /\ matchingHTMLs = << >>
    /\ nouns = << >>
    /\ verbs = << >>
    /\ adjectives = << >>
    /\ ci = 0
    /\ files = << >>

\* How the input ends after its last element: with ']', at the end of the
\* file, or with a token that closes nothing.
Tails == {"close", "eof", "junk"}

\* The state when main has opened its files and launched the goroutines.
Launched ==
    /\ variant \in Variants
    /\ input \in Inputs
    /\ workers \in WorkerCounts
    /\ chanCap \in Capacities
    /\ pcMain = "dispatch"
    /\ rd = 0
    /\ index = 0
    /\ jobs = << >>
    /\ jobsClosed = FALSE
    /\ results = << >>
    /\ resultsClosed = FALSE
    /\ wstate = [w \in 1..workers |-> "recv"]
    /\ wjob = [w \in 1..workers |-> NoJob]
    /\ cstate = "run"
    /\ collectedResults = << >>
    /\ finalOutput = NoOutput
    /\ written = NoOutput
    /\ panicked = FALSE
    /\ dispatched = {}
    /\ recvCnt = << >>
    /\ sentCnt = << >>
    /\ sentErr = {}
    /\ arrival = << >>
    /\ decodeSkipped = {}
    /\ errLogged = {}
    /\ arrayOpen = FALSE
    /\ endLog = "none"
    /\ CatIdle

\* The input is a well-formed array.
Init ==
    /\ Launched
    /\ startOK = TRUE
    /\ tail = "close"

\* The input starts with '[' or not, and ends in any of Tails.
StructInit ==
    /\ Launched
    /\ startOK \in BOOLEAN
    /\ tail \in Tails

(* -------------------------------- main -------------------------------- *)
\* token, err := decoder.Token(): anything but '[' is log.Fatalf, which
\* ends the process at once (the output file exists, nothing is encoded).
ReadStart ==
    /\ ~panicked
    /\ pcMain = "dispatch"
    /\ ~arrayOpen
    /\ IF startOK
       THEN arrayOpen' = TRUE /\ UNCHANGED pcMain
       ELSE pcMain' = "fatal" /\ UNCHANGED arrayOpen
    /\ UNCHANGED << variant, input, workers, chanCap, rd, index, jobs,
                    jobsClosed, results, resultsClosed, wstate, wjob, cstate,
                    collectedResults, finalOutput, written, panicked,
                    dispatched, recvCnt, sentCnt, sentErr, arrival,
                    decodeSkipped, errLogged, startOK, tail, endLog, catVars >>

\* One iteration of the dispatch loop whose Decode(&entry) fails:
\* log, (part_000: Decode(&raw),) index++, continue.
DispatchSkip ==
    /\ ~panicked
    /\ pcMain = "dispatch"
    /\ arrayOpen
    /\ More
    /\ DecodeFails(rd + 1)
    /\ decodeSkipped' = decodeSkipped \cup {index}
    /\ rd' = AfterDecodeError
    /\ index' = index + 1
    /\ UNCHANGED << variant, input, workers, chanCap, pcMain, jobs, jobsClosed,
                    results, resultsClosed, wstate, wjob, cstate,
                    collectedResults, finalOutput, written, panicked,
                    dispatched, recvCnt, sentCnt, sentErr, errLogged, arrival,
                    startOK, tail, arrayOpen, endLog, catVars >>

\* One iteration of the dispatch loop that decodes an entry:
\* jobs <- Job{Index: index, Data: entry}; index++.
\* The send completes when the buffer has room or, on an unbuffered
\* channel, when a worker is waiting in `range jobs`.
DispatchJob ==
    /\ ~panicked
    /\ pcMain = "dispatch"
    /\ arrayOpen
    /\ More
    /\ ~DecodeFails(rd + 1)
    /\ LET job == [Index |-> index, Data |-> Entry(rd + 1)] IN
        /\ \/ /\ Len(jobs) < chanCap
              /\ jobs' = Append(jobs, job)
              /\ UNCHANGED << wstate, wjob, recvCnt >>
           \/ /\ chanCap = 0
              /\ \E w \in 1..workers :
                    /\ wstate[w] = "recv"
                    /\ wstate' = [wstate EXCEPT ![w] = "send"]
                    /\ wjob' = [wjob EXCEPT ![w] = job]
                    /\ recvCnt' = Inc(recvCnt, job.Index)
              /\ UNCHANGED jobs
        /\ dispatched' = dispatched \cup {job}
    /\ rd' = rd + 1
    /\ index' = index + 1
    /\ UNCHANGED << variant, input, workers, chanCap, pcMain, jobsClosed,
                    results, resultsClosed, cstate, collectedResults,
                    finalOutput, written, panicked, sentCnt, sentErr,
                    decodeSkipped, errLogged, arrival,
                    startOK, tail, arrayOpen, endLog, catVars >>

\* What main logs after decoder.Token() at the end of the loop: ']' is
\* acknowledged, a clean end of file passes without a word, anything else
\* is a warning.  None of them stops the run.
EndLogFor(t) ==
    CASE t = "close" -> "Finished reading JSON array."
      [] t = "eof" -> "none"
      [] OTHER -> "Warning: Error reading final JSON token"

\* The loop ends (decoder.More() is false), the closing token is read,
\* close(jobs).
CloseJobs ==
    /\ ~panicked
    /\ pcMain = "dispatch"
    /\ arrayOpen
    /\ ~More
    /\ endLog' = EndLogFor(tail)
    /\ jobsClosed' = TRUE
    /\ pcMain' = "waitWorkers"
    /\ UNCHANGED << variant, input, workers, chanCap, rd, index, jobs,
                    results, resultsClosed, wstate, wjob, cstate,
                    collectedResults, finalOutput, written, panicked,
                    dispatched, recvCnt, sentCnt, sentErr, decodeSkipped,
                    errLogged, arrival,
                    startOK, tail, arrayOpen, catVars >>

\* wg.Wait()
WaitWorkers ==
    /\ ~panicked
    /\ pcMain = "waitWorkers"
    /\ WorkersJoined
    /\ pcMain' = "closeResults"
    /\ UNCHANGED << variant, input, workers, chanCap, rd, index, jobs,
                    jobsClosed, results, resultsClosed, wstate, wjob, cstate,
                    collectedResults, finalOutput, written, panicked,
                    dispatched, recvCnt, sentCnt, sentErr, decodeSkipped,
                    errLogged, arrival,
                    startOK, tail, arrayOpen, endLog, catVars >>

\* close(results)
CloseResults ==
    /\ ~panicked
    /\ pcMain = "closeResults"
    /\ resultsClosed' = TRUE
    /\ pcMain' = "waitCollector"
    /\ UNCHANGED << variant, input, workers, chanCap, rd, index, jobs,
                    jobsClosed, results, wstate, wjob, cstate,
                    collectedResults, finalOutput, written, panicked,
                    dispatched, recvCnt, sentCnt, sentErr, decodeSkipped,
                    errLogged, arrival,
                    startOK, tail, arrayOpen, endLog, catVars >>

\* collectorWg.Wait()
WaitCollector ==
    /\ ~panicked
    /\ pcMain = "waitCollector"
    /\ CollectorJoined
    /\ pcMain' = "sort"
    /\ UNCHANGED << variant, input, workers, chanCap, rd, index, jobs,
                    jobsClosed, results, resultsClosed, wstate, wjob, cstate,
                    collectedResults, finalOutput, written, panicked,
                    dispatched, recvCnt, sentCnt, sentErr, decodeSkipped,
                    errLogged, arrival,
                    startOK, tail, arrayOpen, endLog, catVars >>

\* sort.Slice(collectedResults, by Index)
Sort ==
    /\ ~panicked
    /\ pcMain = "sort"
    /\ collectedResults' \in SortSlice(collectedResults)
    /\ pcMain' = "assemble"
    /\ UNCHANGED << variant, input, workers, chanCap, rd, index, jobs,
                    jobsClosed, results, resultsClosed, wstate, wjob, cstate,
                    finalOutput, written, panicked, dispatched, recvCnt,
                    sentCnt, sentErr, decodeSkipped, errLogged, arrival,
                    startOK, tail, arrayOpen, endLog, catVars >>

\* The loop that fills finalOutput.
Assemble ==
    /\ ~panicked
    /\ pcMain = "assemble"
    /\ finalOutput' = Assembled(collectedResults)
    /\ pcMain' = "write"
    /\ UNCHANGED << variant, input, workers, chanCap, rd, index, jobs,
                    jobsClosed, results, resultsClosed, wstate, wjob, cstate,
                    collectedResults, written, panicked, dispatched, recvCnt,
                    sentCnt, sentErr, decodeSkipped, errLogged, arrival,
                    startOK, tail, arrayOpen, endLog, catVars >>

\* encoder.Encode(finalOutput)
Write ==
    /\ ~panicked
    /\ pcMain = "write"
    /\ written' = finalOutput
    /\ pcMain' = "done"
    /\ UNCHANGED << variant, input, workers, chanCap, rd, index, jobs,
                    jobsClosed, results, resultsClosed, wstate, wjob, cstate,
                    collectedResults, finalOutput, panicked, dispatched,
                    recvCnt, sentCnt, sentErr, decodeSkipped, errLogged, arrival,
                    startOK, tail, arrayOpen, endLog, catVars >>

(* ------------------------------- worker ------------------------------- *)
\* job := <-jobs
WorkerRecv(w) ==
    /\ ~panicked
    /\ wstate[w] = "recv"
    /\ jobs # << >>
    /\ wjob' = [wjob EXCEPT ![w] = Head(jobs)]
    /\ jobs' = Tail(jobs)
    /\ wstate' = [wstate EXCEPT ![w] = "send"]
    /\ recvCnt' = Inc(recvCnt, Head(jobs).Index)
    /\ UNCHANGED << variant, input, workers, chanCap, pcMain, rd, index,
                    jobsClosed, results, resultsClosed, cstate,
                    collectedResults, finalOutput, written, panicked,
                    dispatched, sentCnt, sentErr, decodeSkipped, errLogged, arrival,
                    startOK, tail, arrayOpen, endLog, catVars >>

\* The range loop ends; the deferred wg.Done() runs.
WorkerExit(w) ==
    /\ ~panicked
    /\ wstate[w] = "recv"
    /\ JobsDrained
    /\ wstate' = [wstate EXCEPT ![w] = "done"]
    /\ UNCHANGED << variant, input, workers, chanCap, pcMain, rd, index, jobs,
                    jobsClosed, results, resultsClosed, wjob, cstate,
                    collectedResults, finalOutput, written, panicked,
                    dispatched, recvCnt, sentCnt, sentErr, decodeSkipped,
                    errLogged, arrival,
                    startOK, tail, arrayOpen, endLog, catVars >>

\* The body of the loop: results <- Result{...}; continue.
\* A send on a closed channel panics.  Otherwise the send completes when
\* the buffer has room or, on an unbuffered channel, when the collector
\* is waiting in `range results` (and then handles the Result at once).
WorkerSend(w) ==
    /\ ~panicked
    /\ wstate[w] = "send"
    /\ LET res == ResultOf(wjob[w]) IN
        \/ /\ resultsClosed
           /\ panicked' = TRUE
           /\ UNCHANGED << results, wstate, wjob, collectedResults, errLogged,
                           sentCnt, sentErr, arrival >>
        \/ /\ ~resultsClosed
           /\ \/ /\ Len(results) < chanCap
                 /\ results' = Append(results, res)
                 /\ UNCHANGED << collectedResults, errLogged, arrival >>
              \/ /\ chanCap = 0
                 /\ cstate = "run"
                 /\ collectedResults' = Collected(collectedResults, res)
                 /\ errLogged' = IF Keeps(res) THEN errLogged
                                 ELSE errLogged \cup {res.Index}
                 /\ arrival' = Append(arrival, res.Index)
                 /\ UNCHANGED results
           /\ wstate' = [wstate EXCEPT ![w] = AfterSend(res)]
           /\ wjob' = [wjob EXCEPT ![w] = NoJob]
           /\ sentCnt' = Inc(sentCnt, res.Index)
           /\ sentErr' = IF res.Error # "nil" THEN sentErr \cup {res.Index}
                         ELSE sentErr
           /\ UNCHANGED panicked
    /\ UNCHANGED << variant, input, workers, chanCap, pcMain, rd, index, jobs,
                    jobsClosed, resultsClosed, cstate, finalOutput, written,
                    dispatched, recvCnt, decodeSkipped,
                    startOK, tail, arrayOpen, endLog, catVars >>

(* ------------------------------ collector ----------------------------- *)
\* One iteration of `for res := range results`.
Collect ==
    /\ ~panicked
    /\ cstate = "run"
    /\ results # << >>
    /\ collectedResults' = Collected(collectedResults, Head(results))
    /\ errLogged' = IF Keeps(Head(results)) THEN errLogged
                    ELSE errLogged \cup {Head(results).Index}
    /\ results' = Tail(results)
    /\ arrival' = Append(arrival, Head(results).Index)
    /\ UNCHANGED << variant, input, workers, chanCap, pcMain, rd, index, jobs,
                    jobsClosed, resultsClosed, wstate, wjob, cstate,
                    finalOutput, written, panicked, dispatched, recvCnt,
                    sentCnt, sentErr, decodeSkipped,
                    startOK, tail, arrayOpen, endLog, catVars >>

\* The range loop ends; the deferred collectorWg.Done() runs.
CollectorExit ==
    /\ ~panicked
    /\ cstate = "run"
    /\ ResultsDrained
    /\ cstate' = "done"
    /\ UNCHANGED << variant, input, workers, chanCap, pcMain, rd, index, jobs,
                    jobsClosed, results, resultsClosed, wstate, wjob,
                    collectedResults, finalOutput, written, panicked,
                    dispatched, recvCnt, sentCnt, sentErr, decodeSkipped,
                    errLogged, arrival,
                    startOK, tail, arrayOpen, endLog, catVars >>

(* ---------------------------- specification --------------------------- *)
Main ==
    \/ ReadStart
    \/ DispatchSkip
    \/ DispatchJob
    \/ CloseJobs
    \/ WaitWorkers
    \/ CloseResults
    \/ WaitCollector
    \/ Sort
    \/ Assemble
    \/ Write

Worker(w) == WorkerRecv(w) \/ WorkerSend(w) \/ WorkerExit(w)

Collector == Collect \/ CollectorExit

\* log.Fatalf ends the process: no goroutine takes another step.
Exited == pcMain = "fatal"

Next ==
    \/ Main
    \/ \E w \in 1..workers : ~Exited /\ Worker(w)
    \/ ~Exited /\ Collector

Spec == Init /\ [][Next]_vars

StructSpec == StructInit /\ [][Next]_vars

\* The Go scheduler runs every goroutine that can take a step.
FairSpec == Spec /\ WF_vars(Next)

(* ======================= category stage (part_001) ==================== *)
(* A string is kept as the sequence of its pieces between '-' characters,  *)
(* so that a + "-" + b is a \o b and strings.LastIndex(s, "-") cuts off    *)
(* the last piece.  The empty string is the one empty piece.               *)
MaxRows == 5      \* longest table (.tabell tr) of one lemma
MaxEntries == 2   \* most lemmas in a flattened_lemmas.json with sample tables

EmptyString == << "" >>

\* A table cell, by the three readings the extractors take of its text:
\* the trimmed text, its first whitespace-delimited field, and the trimmed
\* part before the first '+'.
CellA == [text |-> << "a" >>, first |-> << "a" >>, form |-> << "a" >>]
CellHyphen ==
    [text |-> << "e", "post" >>, first |-> << "e", "post" >>,
     form |-> << "e", "post" >>]
CellPlus ==
    [text |-> << "stor + are" >>, first |-> << "stor" >>, form |-> << "stor" >>]
CellTwoWords ==
    [text |-> << "presens aktiv" >>, first |-> << "presens" >>,
     form |-> << "presens aktiv" >>]
CellEmpty == [text |-> EmptyString, first |-> EmptyString, form |-> EmptyString]

\* A row (tr): the number of th.ordformth in it, the trimmed text of their
\* <i>, and its td cells.
HeaderRow(l) == [th |-> 1, label |-> l, cells |-> << >>]
ValueRow(cs) == [th |-> 0, label |-> EmptyString, cells |-> cs]

\* The keys of the Forms maps.
VerbLabels ==
    {"Finita former", "Infinita former", "Presens particip", "Perfekt particip"}
AdjectiveLabels == {"Positiv", "Komparativ", "Superlativ"}

VerbRows ==
    { HeaderRow(<< "Finita former" >>), HeaderRow(<< "Infinita former" >>),
      HeaderRow(<< "x", "Finita former" >>),
      ValueRow(<< >>), ValueRow(<< CellA >>),
      ValueRow(<< CellA, CellTwoWords >>),
      ValueRow(<< CellHyphen, CellEmpty, CellA >>) }

AdjectiveRows ==
    { HeaderRow(<< "Positiv" >>), HeaderRow(<< "Komparativ" >>),
      HeaderRow(<< "x", "Positiv" >>),
      ValueRow(<< >>), ValueRow(<< CellPlus >>), ValueRow(<< CellA, CellA >>) }

NounRows ==
    { HeaderRow(<< "Singular" >>), HeaderRow(<< "Plural" >>),
      ValueRow(<< CellA >>), ValueRow(<< CellA, CellTwoWords >>),
      ValueRow(<< CellA, CellTwoWords, CellA >>) }

\* The tables of at most max rows.
Tables(rows, max) == UNION { [1..n -> rows] : n \in 0..max }

\* A lemma's HTML: whether it parses, the trimmed text of its first
\* .ordklass, whether the text of all its .ordklass is exactly that (one
\* element, no surrounding space), and the rows of its .tabell.
Lemma(class, exact, rows) ==
    [parses |-> TRUE, class |-> class, exact |-> exact, rows |-> rows]
Unparsable == [parses |-> FALSE, class |-> "", exact |-> TRUE, rows |-> << >>]

\* The lemmas of the handled classes with a table of at most max rows.
TableLemmas(max) ==
    { Lemma("verb", TRUE, t) : t \in Tables(VerbRows, max) }
    \cup { Lemma("adjektiv", TRUE, t) : t \in Tables(AdjectiveRows, max) }
    \cup { Lemma("substantiv", TRUE, t) : t \in Tables(NounRows, max) }

SampleLemmas ==
    { Lemma("verb", TRUE,
            << HeaderRow(<< "Finita former" >>), ValueRow(<< CellA, CellTwoWords >>) >>),
      Lemma("verb", TRUE,
            << HeaderRow(<< "Infinita former" >>), ValueRow(<< CellHyphen >>) >>),
      Lemma("verb", FALSE,
            << HeaderRow(<< "Finita former" >>), ValueRow(<< CellA >>) >>),
      Lemma("adjektiv", TRUE,
            << HeaderRow(<< "Positiv" >>), ValueRow(<< CellPlus >>) >>),
      Lemma("adjektiv", TRUE,
            << HeaderRow(<< "Komparativ" >>), ValueRow(<< CellHyphen >>) >>),
      Lemma("substantiv", TRUE,
            << HeaderRow(<< "Singular" >>), ValueRow(<< CellA, CellTwoWords >>) >>),
      Lemma("adverb", TRUE, << >>),
      Lemma("interjektion", TRUE, << >>),
      Unparsable }

\* The decoded input: keys "1".."n" to LemmaInput{HTML, FamilyID}.
MapOf(lemmas) ==
    [k \in DOMAIN lemmas |-> [HTML |-> lemmas[k], FamilyID |-> k]]

\* One lemma with any table of at most maxRows rows, or at most maxEntries
\* lemmas out of SampleLemmas.
InputMaps(maxRows, maxEntries) ==
    { MapOf(<< l >>) : l \in TableLemmas(maxRows) }
    \cup { MapOf(ls) : ls \in UNION { [1..n -> SampleLemmas] : n \in 0..maxEntries } }

(* ----------------------------- extractors ----------------------------- *)
\* th := s.Find("th.ordformth"); th.Length() == 1
IsHeader(row) == row.th = 1

\* parseSubstantiv: tds.Length() != 2 returns.
NounAccepts(row) == Len(row.cells) = 2

\* A verb row taken only with exactly two cells.
VerbAcceptsTwoCells(row) == Len(row.cells) = 2

\* parseVerbForms: tds.Length() == 0 returns.
VerbAccepts(row) == Len(row.cells) # 0

\* parseAdjektiv: tds.Length() != 1 returns.
AdjectiveAccepts(row) == Len(row.cells) = 1

\* fmt.Sprintf("%s-%s-%s", nounText, ledWord, currentCase)
NounEntry(row, currentCase) ==
    row.cells[1].text \o row.cells[2].first \o currentCase

\* entry := formText; if tenseVoice != "" { entry += "-" + tenseVoice };
\* entry += "-" + currentSection
VerbEntry(row, currentSection) ==
    LET formText == row.cells[1].text
        tenseVoice == IF Len(row.cells) > 1 THEN row.cells[2].text
                      ELSE EmptyString
    IN formText \o (IF tenseVoice # EmptyString THEN tenseVoice ELSE << >>)
                \o currentSection

\* fmt.Sprintf("%s-%s", form, currentDegree)
AdjectiveEntry(row, currentDegree) == row.cells[1].form \o currentDegree

RECURSIVE parseSubstantiv(_, _, _, _)
\* The Each callback over rows i.., with currentCase and the nouns so far.
parseSubstantiv(rows, i, currentCase, out) ==
    IF i > Len(rows) THEN out
    ELSE IF IsHeader(rows[i])
    THEN parseSubstantiv(rows, i + 1, rows[i].label, out)
    ELSE IF ~NounAccepts(rows[i])
    THEN parseSubstantiv(rows, i + 1, currentCase, out)
    ELSE parseSubstantiv(rows, i + 1, currentCase,
                         Append(out, NounEntry(rows[i], currentCase)))

RECURSIVE parseVerbForms(_, _, _, _)
parseVerbForms(rows, i, currentSection, out) ==
    IF i > Len(rows) THEN out
    ELSE IF IsHeader(rows[i])
    THEN parseVerbForms(rows, i + 1, rows[i].label, out)
    ELSE IF ~VerbAccepts(rows[i])
    THEN parseVerbForms(rows, i + 1, currentSection, out)
    ELSE parseVerbForms(rows, i + 1, currentSection,
                        Append(out, VerbEntry(rows[i], currentSection)))

RECURSIVE parseAdjektiv(_, _, _, _)
parseAdjektiv(rows, i, currentDegree, out) ==
    IF i > Len(rows) THEN out
    ELSE IF IsHeader(rows[i])
    THEN parseAdjektiv(rows, i + 1, rows[i].label, out)
    ELSE IF ~AdjectiveAccepts(rows[i])
    THEN parseAdjektiv(rows, i + 1, currentDegree, out)
    ELSE parseAdjektiv(rows, i + 1, currentDegree,
                       Append(out, AdjectiveEntry(rows[i], currentDegree)))

(* ------------------------------- folding ------------------------------ *)
\* strings.LastIndex(tagged, "-") < 0: no '-' in the string.
NoHyphen(tagged) == Len(tagged) = 1

\* The piece before the first '-' instead of the one after the last.
BeforeFirstHyphen(tagged) == tagged[1]

\* tagged[last+1:]
AfterLastHyphen(tagged) == tagged[Len(tagged)]

\* tagged[:last]
BeforeLastHyphen(tagged) == SubSeq(tagged, 1, Len(tagged) - 1)

RECURSIVE FoldForms(_, _, _)
\* The loop over one lemma's tagged strings, from string i on.
FoldForms(raw, i, forms) ==
    IF i > Len(raw) THEN forms
    ELSE IF NoHyphen(raw[i]) THEN FoldForms(raw, i + 1, forms)
    ELSE LET section == AfterLastHyphen(raw[i])
             fv == BeforeLastHyphen(raw[i])
         IN IF section \in DOMAIN forms
            THEN FoldForms(raw, i + 1,
                           [forms EXCEPT ![section] = Append(@, fv)])
            ELSE FoldForms(raw, i + 1, forms)

\* saveVerbsJSON: one verbJSON per lemma.
VerbsJSON(all) ==
    [i \in DOMAIN all |->
        [class |-> "verb",
         forms |-> FoldForms(all[i], 1, [l \in VerbLabels |-> << >>])]]

\* saveAdjectivesJSON: one AdjectiveEntry per lemma.
AdjectivesJSON(adjs) ==
    [i \in DOMAIN adjs |->
        [class |-> "adjektiv",
         forms |-> FoldForms(adjs[i], 1, [l \in AdjectiveLabels |-> << >>])]]

(* -------------------------------- filter ------------------------------ *)
allowedOrdklass == {"substantiv", "verb", "adjektiv", "adverb"}

\* strings.TrimSpace(doc.Find(".ordklass").First().Text())
OrdklassText(html) == html.class

\* doc.Find(".ordklass").Text() in main's switch: the text of every
\* .ordklass, untrimmed.
SwitchText(html) == IF html.exact THEN html.class ELSE "(other text)"

(* -------------------------------- Init -------------------------------- *)
\* part_000 has run and is over.
PipeIdle ==
    /\ variant = "lemma"
    /\ input = << >>
    /\ workers = 1
    /\ chanCap = 0
    /\ pcMain = "done"
    /\ rd = 0
    /\ index = 0
    /\ jobs = << >>
    /\ jobsClosed = TRUE
    /\ results = << >>
    /\ resultsClosed = TRUE
    /\ wstate = [w \in 1..1 |-> "done"]
    /\ wjob = [w \in 1..1 |-> NoJob]
    /\ cstate = "done"
    /\ collectedResults = << >>
    /\ finalOutput = NoOutput
    /\ written = NoOutput
    /\ panicked = FALSE
    /\ dispatched = {}
    /\ recvCnt = << >>
    /\ sentCnt = << >>
    /\ sentErr = {}
    /\ arrival = << >>
    /\ decodeSkipped = {}
    /\ errLogged = {}
    /\ startOK = TRUE
    /\ tail = "close"
    /\ arrayOpen = TRUE
    /\ endLog = EndLogFor("close")

CatInit ==
    /\ PipeIdle
    /\ inputMap \in InputMaps(MaxRows, MaxEntries)
    /\ pcCat = "filter"
    /\ pending = DOMAIN inputMap
    /\ matchingHTMLs = << >>
    /\ nouns = << >>
    /\ verbs = << >>
    /\ adjectives = << >>
    /\ ci = 0
    /\ files = << >>

(* ------------------------------- actions ------------------------------ *)
\* One iteration of `for key, entry := range inputMap`: Go yields the
\* keys of a map in an order of its own choosing.
FilterStep ==
    /\ pcCat = "filter"
    /\ \E key \in pending :
        LET html == inputMap[key].HTML IN
        /\ pending' = pending \ {key}
        /\ matchingHTMLs' =
              IF html.parses /\ OrdklassText(html) \in allowedOrdklass
              THEN Append(matchingHTMLs, html)
              ELSE matchingHTMLs
    /\ UNCHANGED << pipeVars, inputMap, pcCat, nouns, verbs, adjectives, ci,
                    files >>

\* The range ends; FilterLemmasByOrdklass returns matchingHTMLs.
FilterReturn ==
    /\ pcCat = "filter"
    /\ pending = {}
    /\ pcCat' = "classify"
    /\ UNCHANGED << pipeVars, inputMap, pending, matchingHTMLs, nouns, verbs,
                    adjectives, ci, files >>

\* One iteration of main's loop over filteredHTMLs.
Classify ==
    /\ pcCat = "classify"
    /\ ci < Len(matchingHTMLs)
    /\ LET html == matchingHTMLs[ci + 1] IN
        IF ~html.parses
        THEN /\ pcCat' = "fatal"
             /\ UNCHANGED << nouns, verbs, adjectives, ci >>
        ELSE /\ nouns' = IF SwitchText(html) = "substantiv"
                         THEN Append(nouns, parseSubstantiv(html.rows, 1, EmptyString, << >>))
                         ELSE nouns
             /\ verbs' = IF SwitchText(html) = "verb"
                         THEN Append(verbs, parseVerbForms(html.rows, 1, EmptyString, << >>))
                         ELSE verbs
             /\ adjectives' = IF SwitchText(html) = "adjektiv"
                              THEN Append(adjectives, parseAdjektiv(html.rows, 1, EmptyString, << >>))
                              ELSE adjectives
             /\ ci' = ci + 1
             /\ UNCHANGED pcCat
    /\ UNCHANGED << pipeVars, inputMap, pending, matchingHTMLs, files >>

\* saveAdjectivesJSON(adjectives, "adjectives.json")
SaveAdjectives ==
    /\ pcCat = "classify"
    /\ ci = Len(matchingHTMLs)
    /\ files' = MapSet(files, "adjectives.json", AdjectivesJSON(adjectives))
    /\ pcCat' = "saveVerbs"
    /\ UNCHANGED << pipeVars, inputMap, pending, matchingHTMLs, nouns, verbs,
                    adjectives, ci >>

\* saveVerbsJSON(verbs, "verbs.json"), then the verbs are printed.
SaveVerbs ==
    /\ pcCat = "saveVerbs"
    /\ files' = MapSet(files, "verbs.json", VerbsJSON(verbs))
    /\ pcCat' = "done"
    /\ UNCHANGED << pipeVars, inputMap, pending, matchingHTMLs, nouns, verbs,
                    adjectives, ci >>

CatNext ==
    \/ FilterStep
    \/ FilterReturn
    \/ Classify
    \/ SaveAdjectives
    \/ SaveVerbs

CatSpec == CatInit /\ [][CatNext]_vars

(* ============================== claims ================================ *)
DispatchedIndexes == { job.Index : job \in dispatched }
CollectedIndexes == { collectedResults[i].Index : i \in DOMAIN collectedResults }
JobAt(i) == CHOOSE job \in dispatched : job.Index = i
Finished == pcMain = "done"
Reconciled == pcMain \in {"assemble", "write", "done"}
AssembledAlready == pcMain \in {"write", "done"}
\* The collector got the Results in an order that is not the Index order.
OutOfOrderArrival ==
    \E i, j \in DOMAIN arrival : i < j /\ arrival[i] > arrival[j]

\* C1: when the pipeline has finished, every dispatched Job was received
\* exactly once (so by exactly one worker) and exactly one Result with its
\* Index was sent; no Result or reception exists for an Index that was
\* never dispatched.
C1_ExactlyOneResultPerJob ==
    Finished =>
        /\ \A job \in dispatched :
              /\ Cnt(recvCnt, job.Index) = 1
              /\ Cnt(sentCnt, job.Index) = 1
        /\ DOMAIN recvCnt \subseteq DispatchedIndexes
        /\ DOMAIN sentCnt \subseteq DispatchedIndexes
        /\ Cardinality(dispatched) = Cardinality(DispatchedIndexes)

C1_Witness ==
    /\ Finished
    /\ workers >= 2
    /\ Cardinality(dispatched) >= 3
    /\ sentErr # {}
    /\ sentErr # DispatchedIndexes
    /\ OutOfOrderArrival

\* C2 as claimed: in the final output of the lemma pipeline familyID is
\* strictly increasing with the key.
C2_FamilyIDStrictlyIncreasing ==
    (variant = "lemma" /\ AssembledAlready) =>
        \A k, l \in DOMAIN finalOutput :
            k < l => finalOutput[k].FamilyID < finalOutput[l].FamilyID

\* C2 amended: in the final output of the lemma pipeline familyID never
\* decreases with the key; entries of one document share its familyID and
\* entries of documents later in the input have a strictly larger one.
C2_FamilyIDNonDecreasing ==
    (variant = "lemma" /\ AssembledAlready) =>
        \A k, l \in DOMAIN finalOutput :
            k < l =>
              /\ finalOutput[k].FamilyID <= finalOutput[l].FamilyID
              /\ finalOutput[k].HTML[2] <= finalOutput[l].HTML[2]
              /\ (finalOutput[k].HTML[2] < finalOutput[l].HTML[2]
                    <=> finalOutput[k].FamilyID < finalOutput[l].FamilyID)

C2_Witness ==
    /\ variant = "lemma"
    /\ Finished
    /\ OutOfOrderArrival
    /\ \E k, l \in DOMAIN written :
          k < l /\ written[k].FamilyID = written[l].FamilyID
    /\ \E k, l \in DOMAIN written :
          k < l /\ written[k].FamilyID < written[l].FamilyID

\* Number of output entries a kept Result contributes.
SubRecords(res) == IF variant = "lemma" THEN Len(res.LemmaHTMLs) ELSE 1

RECURSIVE SubRecordsUpTo(_)
\* Number of output entries of the first n Results of the buffer.
SubRecordsUpTo(n) ==
    IF n = 0 THEN 0
    ELSE SubRecordsUpTo(n - 1) + SubRecords(collectedResults[n])

\* C3: the keys of the final output are exactly 1..n, n being the total
\* number of sub-records of the kept documents (no gap, no key used
\* twice), and the keys of a document follow those of every document of
\* smaller Index: the i-th Result of the Index-ordered buffer owns the
\* keys after those of the first i-1 Results.
C3_DenseKeys ==
    AssembledAlready =>
        /\ DOMAIN finalOutput = 1..Cardinality(DOMAIN finalOutput)
        /\ Cardinality(DOMAIN finalOutput) = SubRecordsUpTo(Len(collectedResults))
        /\ IsOrdered(collectedResults)
        /\ \A i \in DOMAIN collectedResults :
             \A k \in (SubRecordsUpTo(i - 1) + 1)..SubRecordsUpTo(i) :
                /\ k \in DOMAIN finalOutput
                /\ IF variant = "lemma"
                   THEN finalOutput[k] =
                          [HTML |-> collectedResults[i].LemmaHTMLs[k - SubRecordsUpTo(i - 1)],
                           FamilyID |-> collectedResults[i].Index + 1]
                   ELSE finalOutput[k] = collectedResults[i].CleanedHTML

C3_Witness ==
    /\ variant = "lemma"
    /\ Finished
    /\ Len(collectedResults) = 3
    /\ Len(collectedResults[1].LemmaHTMLs) = 2
    /\ Len(collectedResults[2].LemmaHTMLs) = 0
    /\ Len(collectedResults[3].LemmaHTMLs) = 1
    /\ OutOfOrderArrival

\* C4: once the collector has finished, the buffer holds exactly the
\* dispatched Indexes whose Result carried no error, each once, and the
\* Result kept for an Index is the one computed from that Index's Job.
C4_ErrorIsolation ==
    cstate = "done" =>
        /\ CollectedIndexes = DispatchedIndexes \ sentErr
        /\ Len(collectedResults) = Cardinality(CollectedIndexes)
        /\ \A i \in DOMAIN collectedResults :
              /\ collectedResults[i].Error = "nil"
              /\ collectedResults[i] = ResultOf(JobAt(collectedResults[i].Index))
        /\ errLogged = sentErr

C4_Witness ==
    /\ cstate = "done"
    /\ Cardinality(sentErr) = 1
    /\ Len(collectedResults) = 2
    /\ \E i \in sentErr : \E a, b \in CollectedIndexes : a < i /\ i < b

\* C5 as claimed: the number of documents in the reconciled buffer (and
\* of output entries in the article pipeline) is the number of input
\* elements minus the number of elements logged as skipped.
C5_FinalCount ==
    Finished =>
        LET skipped == Cardinality(decodeSkipped) + Cardinality(errLogged) IN
        /\ Len(collectedResults) = Len(input) - skipped
        /\ variant = "article" =>
              Cardinality(DOMAIN finalOutput) = Len(input) - skipped

\* C6 as claimed: the Index of every dispatched Job is the zero-based
\* position of its element, an element that fails to decode is logged
\* under its own position, and once dispatch is over every element that
\* decodes has been dispatched.
C6_IndexAlignment ==
    /\ \A job \in dispatched : job.Index = job.Data.pos
    /\ \A i \in decodeSkipped : DecodeFails(i + 1)
    /\ pcMain # "dispatch" =>
          \A i \in 1..Len(input) :
              ~DecodeFails(i) => \E job \in dispatched : job.Data.pos = i - 1

AllWorkersDone == \A w \in 1..workers : wstate[w] = "done"
Arrivals(i) == Cardinality({ k \in DOMAIN arrival : arrival[k] = i })

\* C7: close(jobs), then every worker ends, then close(results), then the
\* collector ends, then the sort, then assembly.  No worker sends on the
\* closed results channel (no panic), and when reconciliation starts the
\* collector has received every Result that was sent.
C7_CompletionOrder ==
    /\ ~panicked
    /\ jobsClosed <=> pcMain # "dispatch"
    /\ (\E w \in 1..workers : wstate[w] = "done") => jobsClosed
    /\ pcMain \notin {"dispatch", "waitWorkers"} => AllWorkersDone
    /\ resultsClosed <=> pcMain \notin {"dispatch", "waitWorkers", "closeResults"}
    /\ cstate = "done" => resultsClosed /\ results = << >>
    /\ pcMain \in {"sort", "assemble", "write", "done"} =>
          /\ cstate = "done"
          /\ \A i \in DOMAIN sentCnt : Arrivals(i) = sentCnt[i]
          /\ \A i \in DOMAIN arrival : arrival[i] \in DOMAIN sentCnt
    /\ Reconciled => IsOrdered(collectedResults)
    /\ finalOutput # NoOutput => AssembledAlready

C7_Witness ==
    /\ pcMain = "sort"
    /\ workers >= 2
    /\ Len(arrival) = 3
    /\ OutOfOrderArrival
    /\ ~IsOrdered(collectedResults)

RECURSIVE SequentialBuffer(_, _, _)
\* The buffer a run without concurrency builds: the elements taken one at
\* a time, in input order, each handled before the next is read.
SequentialBuffer(p, idx, buf) ==
    IF p > Len(input) THEN buf
    ELSE IF input[p] = "bad"
    THEN SequentialBuffer(
            IF variant = "lemma" /\ p < Len(input) THEN p + 2 ELSE p + 1,
            idx + 1, buf)
    ELSE LET res == ResultOf([Index |-> idx,
                              Data |-> [pos |-> p - 1, kind |-> input[p]]])
         IN SequentialBuffer(p + 1, idx + 1,
                             IF res.Error = "nil" THEN Append(buf, res) ELSE buf)

\* C9: the final output is the one a sequential run over the same input
\* produces, whatever the interleaving and the completion order.
C9_Deterministic ==
    /\ AssembledAlready =>
          finalOutput = Assembled(SequentialBuffer(1, 0, << >>))
    /\ Finished => written = finalOutput

C9_Witness ==
    /\ Finished
    /\ workers >= 2
    /\ OutOfOrderArrival
    /\ Cardinality(DOMAIN written) >= 3

\* Place in the buffer of the Result kept for Index i (0 if there is none).
PlaceOf(i) ==
    IF i \in CollectedIndexes
    THEN CHOOSE k \in DOMAIN collectedResults : collectedResults[k].Index = i
    ELSE 0

\* The output keys that come from the document dispatched with Index i.
KeysOf(i) ==
    IF variant = "lemma"
    THEN { k \in DOMAIN finalOutput : finalOutput[k].FamilyID = i + 1 }
    ELSE { k \in DOMAIN finalOutput : k = PlaceOf(i) }

NoArticleJobs == { job \in dispatched : job.Data.kind = "noart" }

EmptyPayload(res) ==
    IF variant = "lemma" THEN res.LemmaHTMLs = << >>
    ELSE res.CleanedHTML = EmptyHTML

\* C10 as claimed: a Job without div.article yields a Result with no error
\* and an empty payload, is never logged or discarded as a failure, and
\* contributes no entry to the final output.
C10_NoArticleNoEntry ==
    Finished =>
        \A job \in NoArticleJobs :
            /\ job.Index \notin sentErr \cup errLogged
            /\ PlaceOf(job.Index) # 0
            /\ EmptyPayload(collectedResults[PlaceOf(job.Index)])
            /\ KeysOf(job.Index) = {}

\* C10 amended: a Job without div.article yields a Result with no error
\* and an empty payload and is never logged or discarded as a failure; in
\* the lemma pipeline it contributes no entry to the final output, in the
\* article pipeline exactly one entry, whose payload is the empty string.
C10_NoArticleIsSuccess ==
    Finished =>
        \A job \in NoArticleJobs :
            /\ job.Index \notin sentErr \cup errLogged
            /\ PlaceOf(job.Index) # 0
            /\ EmptyPayload(collectedResults[PlaceOf(job.Index)])
            /\ IF variant = "lemma"
               THEN KeysOf(job.Index) = {}
               ELSE /\ Cardinality(KeysOf(job.Index)) = 1
                    /\ \A k \in KeysOf(job.Index) : finalOutput[k] = EmptyHTML

C10_Witness ==
    /\ Finished
    /\ variant = "article"
    /\ Cardinality(NoArticleJobs) = 1
    /\ Cardinality(DOMAIN written) = 3
    /\ \E job \in NoArticleJobs : job.Index = 1 /\ written[2] = EmptyHTML


(* ----------------------- claims on the category stage ------------------ *)
\* The lemmas of the input map that pass the filter, by ascending key.
PassesFilter(html) == html.parses /\ html.class \in allowedOrdklass
InKeyOrder == SelectSeq([k \in DOMAIN inputMap |-> inputMap[k].HTML], PassesFilter)

IsVerb(html) == SwitchText(html) = "verb"
IsAdjective(html) == SwitchText(html) = "adjektiv"

VerbsOf(htmls) ==
    LET vs == SelectSeq(htmls, IsVerb)
    IN [i \in DOMAIN vs |-> parseVerbForms(vs[i].rows, 1, EmptyString, << >>)]

AdjectivesOf(htmls) ==
    LET as == SelectSeq(htmls, IsAdjective)
    IN [i \in DOMAIN as |-> parseAdjektiv(as[i].rows, 1, EmptyString, << >>)]

CatDone == pcCat = "done"

\* C11: the records of verbs.json and adjectives.json come in an order
\* fixed by the input alone (here: the order of the keys), whatever order
\* the range over the input map takes.
C11_OutputFixedByInput ==
    CatDone =>
        /\ files["verbs.json"] = VerbsJSON(VerbsOf(InKeyOrder))
        /\ files["adjectives.json"] = AdjectivesJSON(AdjectivesOf(InKeyOrder))

\* A run on two verbs that writes them by ascending key: together with the
\* run violating C11_OutputFixedByInput, the same input has two outputs.
C11_KeyOrderRun ==
    /\ CatDone
    /\ Len(inputMap) = 2
    /\ Len(files["verbs.json"]) = 2
    /\ files["verbs.json"][1] # files["verbs.json"][2]
    /\ files["verbs.json"] = VerbsJSON(VerbsOf(InKeyOrder))

\* The records of class c in the files written.
RecordsOf(c) ==
    { << f, i >> \in UNION { {f} \X DOMAIN files[f] : f \in DOMAIN files } :
        files[f][i].class = c }

LemmasOfClass(c) ==
    { k \in DOMAIN inputMap :
        inputMap[k].HTML.parses /\ inputMap[k].HTML.class = c }

handledOrdklass == {"substantiv", "verb", "adjektiv"}

\* C12: every lemma of a handled class (substantiv, verb, adjektiv) has
\* exactly one record of its class in the category output.
C12_OneRecordPerLemma ==
    CatDone =>
        \A c \in handledOrdklass :
            Cardinality(RecordsOf(c)) = Cardinality(LemmasOfClass(c))


(* ------------------- one lemma, its table and its record --------------- *)
\* The input is one lemma of a handled class whose switch text is its class.
OneLemma ==
    /\ Len(inputMap) = 1
    /\ inputMap[1].HTML.parses
    /\ inputMap[1].HTML.exact
    /\ inputMap[1].HTML.class \in handledOrdklass

TheClass == inputMap[1].HTML.class
TheRows == inputMap[1].HTML.rows

\* Main's loop has run the extractor of the lemma's class on it.
Extracted == OneLemma /\ pcCat \in {"classify", "saveVerbs", "done"} /\ ci = 1

\* What the extractor returned.
Emitted ==
    CASE TheClass = "substantiv" -> nouns[1]
      [] TheClass = "verb" -> verbs[1]
      [] OTHER -> adjectives[1]

\* The label of the nearest header row before row i, or the empty label.
NearestLabel(rows, i) ==
    LET hs == { j \in 1..(i - 1) : IsHeader(rows[j]) }
    IN IF hs = {} THEN EmptyString
       ELSE rows[CHOOSE j \in hs : \A k \in hs : k <= j].label

\* The value a row carries, by the table's class.
ValueOf(class, row) ==
    CASE class = "substantiv" -> row.cells[1].text \o row.cells[2].first
      [] class = "verb" ->
            IF Len(row.cells) > 1 /\ row.cells[2].text # EmptyString
            THEN row.cells[1].text \o row.cells[2].text
            ELSE row.cells[1].text
      [] OTHER -> row.cells[1].form

\* The value rows the extractor of the class accepts.
Accepted(class, row) ==
    /\ ~IsHeader(row)
    /\ CASE class = "substantiv" -> NounAccepts(row)
         [] class = "verb" -> VerbAccepts(row)
         [] OTHER -> AdjectiveAccepts(row)

\* The indexes of the rows satisfying Test, ascending.
RowsWhere(rows, Test(_)) ==
    SelectSeq([i \in DOMAIN rows |-> i], LAMBDA i : Test(rows[i]))

\* One record per row of `at`, tagged with its nearest preceding header.
TaggedInRowOrder(class, rows, at) ==
    [k \in DOMAIN at |->
        ValueOf(class, rows[at[k]]) \o NearestLabel(rows, at[k])]

\* The record written for the one lemma (verbs and adjectives).
FileOf(class) == IF class = "verb" THEN "verbs.json" ELSE "adjectives.json"
LabelsOf(class) == IF class = "verb" THEN VerbLabels ELSE AdjectiveLabels
Folded == OneLemma /\ CatDone /\ TheClass \in {"verb", "adjektiv"}
TheForms == files[FileOf(TheClass)][1].forms

\* Header A, two accepted value rows, header B, one accepted value row.
TwoThenOne ==
    /\ Len(TheRows) = 5
    /\ IsHeader(TheRows[1]) /\ IsHeader(TheRows[4])
    /\ \A i \in {2, 3, 5} : Accepted(TheClass, TheRows[i])

LabelA == TheRows[1].label
LabelB == TheRows[4].label

\* forms[label] is vals.
FormsAt(class, label, vals) ==
    /\ class \in {"verb", "adjektiv"}
    /\ Len(files[FileOf(class)]) = 1
    /\ Len(label) = 1
    /\ label[1] \in DOMAIN files[FileOf(class)][1].forms
    /\ files[FileOf(class)][1].forms[label[1]] = vals

\* Part of C13 and of its amendment: each extractor starts with the empty
\* context, emits nothing for a header row, and for each accepted value
\* row one record tagged with the label of the nearest preceding header,
\* in row order.
ContextGrouping ==
    Extracted =>
        Emitted = TaggedInRowOrder(TheClass, TheRows,
                      RowsWhere(TheRows, LAMBDA r : Accepted(TheClass, r)))

\* C13 as stated: context grouping, and after folding a table with header
\* A, two value rows, header B, one value row gives forms[A] of length 2
\* and forms[B] of length 1, values in row order.
C13_ContextGrouping ==
    /\ ContextGrouping
    /\ (OneLemma /\ CatDone /\ TwoThenOne) =>
          /\ FormsAt(TheClass, LabelA,
                     << ValueOf(TheClass, TheRows[2]), ValueOf(TheClass, TheRows[3]) >>)
          /\ FormsAt(TheClass, LabelB, << ValueOf(TheClass, TheRows[5]) >>)

\* C13 amended: context grouping as stated; and after folding, a verb or
\* adjective table with header A, two value rows, header B, one value row,
\* where A and B are two different labels of the class's fixed label set,
\* gives forms[A] of length 2 and forms[B] of length 1, in row order.
C13_GroupingOfRecognizedLabels ==
    /\ ContextGrouping
    /\ (Folded /\ TwoThenOne /\ LabelA # LabelB
          /\ Len(LabelA) = 1 /\ LabelA[1] \in LabelsOf(TheClass)
          /\ Len(LabelB) = 1 /\ LabelB[1] \in LabelsOf(TheClass)) =>
          /\ FormsAt(TheClass, LabelA,
                     << ValueOf(TheClass, TheRows[2]), ValueOf(TheClass, TheRows[3]) >>)
          /\ FormsAt(TheClass, LabelB, << ValueOf(TheClass, TheRows[5]) >>)

C13_Witness ==
    /\ Folded /\ TwoThenOne
    /\ TheClass = "verb"
    /\ LabelA = << "Finita former" >> /\ LabelB = << "Infinita former" >>
    /\ Len(TheForms["Finita former"]) = 2
    /\ Len(TheForms["Infinita former"]) = 1
    /\ TheForms["Finita former"][1] # TheForms["Finita former"][2]


\* The cell counts for which a value row of the class yields a record,
\* as C14 states them: 1 for adjectives, 2 for nouns and verbs.
StatedArity(class, n) == IF class = "adjektiv" THEN n = 1 ELSE n = 2

\* The cell counts for which the extractors yield a record: exactly 2 for
\* nouns, exactly 1 for adjectives, any count but 0 for verbs.
YieldingArity(class, n) ==
    CASE class = "substantiv" -> n = 2
      [] class = "verb" -> n >= 1
      [] OTHER -> n = 1

ValuesUnder(class, rows, l) ==
    LET at == SelectSeq([i \in DOMAIN rows |-> i],
                        LAMBDA i : /\ Accepted(class, rows[i])
                                   /\ NearestLabel(rows, i) = << l >>)
    IN [k \in DOMAIN at |-> ValueOf(class, rows[at[k]])]

\* C15: folding appends the value of a tagged record, unchanged, to
\* forms[context] exactly if the context is one of the class's fixed
\* labels; every other record, also one whose context ends with a fixed
\* label after a '-', is dropped, and the keys of forms are the fixed
\* labels.
C15_FoldByRecognizedLabel ==
    Folded =>
        TheForms = [l \in LabelsOf(TheClass) |-> ValuesUnder(TheClass, TheRows, l)]


(* ------------------------ claims on the pipeline ----------------------- *)
\* The input is not a well-formed array.
Malformed == ~startOK \/ tail # "close"

\* C16: when the first token of the input is not the array start, or the
\* array is not terminated by its end delimiter, the run aborts: no sort,
\* no assembly, no output entry written, the write step is never reached.
C16_StructuralErrorsAbort ==
    Malformed =>
        /\ pcMain \notin {"sort", "assemble", "write", "done"}
        /\ finalOutput = NoOutput
        /\ written = NoOutput

\* Half of C16 that the code keeps: without the array start nothing is
\* dispatched and nothing is written.
C16_NoStartAborts ==
    ~startOK =>
        /\ pcMain \in {"dispatch", "fatal"}
        /\ dispatched = {} /\ collectedResults = << >>
        /\ written = NoOutput


\* The collector goroutine is alive: it may append to the buffer.
CollectorLive == cstate # "done"

\* Main is at a statement that reads the buffer: its length, the sort,
\* the assembly.
MainReadsBuffer == pcMain \in {"sort", "assemble"}

\* A step of the collector that appends one Result to the buffer.
CollectorAppends ==
    /\ cstate = "run"
    /\ pcMain' = pcMain
    /\ Len(collectedResults') = Len(collectedResults) + 1
    /\ SubSeq(collectedResults', 1, Len(collectedResults)) = collectedResults

\* Main's sort of the buffer, after the collector ended.
MainSorts ==
    /\ pcMain = "sort" /\ pcMain' = "assemble"
    /\ cstate = "done" /\ cstate' = "done"

\* C17: the buffer is written only by the collector; main reads and
\* sorts it only when the collector has terminated; in no state do the
\* collector and main have access to the buffer together.
C17_NoRaceOnBuffer ==
    /\ [](~(CollectorLive /\ MainReadsBuffer))
    /\ [][collectedResults' # collectedResults =>
            CollectorAppends \/ MainSorts]_vars

\* The collector appended two Results out of Index order and ended, and
\* main has sorted them.
C17_Witness ==
    /\ pcMain = "assemble"
    /\ cstate = "done"
    /\ Len(collectedResults) = 2
    /\ arrival = << 1, 0 >>


\* The jobs whose Result the collector kept.
KeptJobs == { job \in dispatched : job.Index \in CollectedIndexes }

\* The keys of the final output whose entry is a lemma of the job's
\* document.
KeysFrom(job) ==
    { k \in DOMAIN finalOutput :
        \E j \in 1..LemmaCount(job.Data.kind) :
            finalOutput[k].HTML = LemmaHTML(job.Data.pos, j) }

\* C18: in the lemma pipeline every output entry carries the familyID
\* Index + 1 of the Job of the document it comes from; the lemmas of one
\* document have consecutive keys, in the order of the document's payload,
\* so the lemmas of two documents are never interleaved.
C18_BackReferenceAndFlattening ==
    (AssembledAlready /\ variant = "lemma") =>
        /\ \A k \in DOMAIN finalOutput : \E job \in KeptJobs : k \in KeysFrom(job)
        /\ \A job \in KeptJobs :
            LET n == Len(LemmasOf(job.Data)) IN
            /\ Cardinality(KeysFrom(job)) = n
            /\ \A k \in KeysFrom(job) : finalOutput[k].FamilyID = job.Index + 1
            /\ n > 0 =>
                \E b \in DOMAIN finalOutput :
                    \A j \in 1..n :
                        /\ b + j - 1 \in DOMAIN finalOutput
                        /\ finalOutput[b + j - 1].HTML = LemmaHTML(job.Data.pos, j)

\* A document of two lemmas and a document of one, collected in the
\* opposite order, written under keys 1, 2 and 3.
C18_Witness ==
    /\ Finished /\ variant = "lemma"
    /\ input = << "art2", "art1" >>
    /\ arrival = << 1, 0 >>
    /\ written[1] = [FamilyID |-> 1, HTML |-> LemmaHTML(0, 1)]
    /\ written[2] = [FamilyID |-> 1, HTML |-> LemmaHTML(0, 2)]
    /\ written[3] = [FamilyID |-> 2, HTML |-> LemmaHTML(1, 1)]


\* Worker w leaves its loop in this step.
Leaves(w) == wstate[w] # "done" /\ wstate'[w] = "done"

\* Worker w completes the send of its Result in this step.
Sends(w) == wstate[w] = "send" /\ wstate'[w] # "send"

\* C19: a worker that has sent its Result, with an error or not, is back
\* at the receive of the next Job; a worker leaves its loop only at the
\* receive, when jobs is closed and empty, so no worker has ended while
\* a Job is still to be delivered; and a Job is received once and gets one
\* Result (no retry).
C19_WorkerFailureIsolation ==
    /\ [][\A w \in 1..workers :
            /\ Leaves(w) => wstate[w] = "recv" /\ jobsClosed /\ jobs = << >>
            /\ (Sends(w) /\ ~panicked') => wstate'[w] = "recv"]_vars
    /\ []((\E w \in 1..workers : wstate[w] = "done") =>
            jobsClosed /\ jobs = << >>)
    /\ [](\A i \in DOMAIN sentCnt : sentCnt[i] = 1 /\ Cnt(recvCnt, i) = 1)

\* The only worker has sent an error Result for Job 0 and now holds Job 1.
C19_Witness ==
    /\ workers = 1
    /\ sentErr = {0}
    /\ wstate[1] = "send"
    /\ wjob[1] # NoJob /\ wjob[1].Index = 1


\* In how many places the Index i is: in the jobs queue, with a worker, in
\* the results queue, in the collected buffer, discarded as failed.
PlacesOf(i) ==
    Cardinality({ k \in DOMAIN jobs : jobs[k].Index = i })
    + Cardinality({ w \in 1..workers : wjob[w] # NoJob /\ wjob[w].Index = i })
    + Cardinality({ k \in DOMAIN results : results[k].Index = i })
    + Cardinality({ k \in DOMAIN collectedResults : collectedResults[k].Index = i })
    + (IF i \in errLogged THEN 1 ELSE 0)

\* Every Index that is somewhere.
IndexesInFlight ==
    { jobs[k].Index : k \in DOMAIN jobs }
    \cup { wjob[w].Index : w \in { v \in 1..workers : wjob[v] # NoJob } }
    \cup { results[k].Index : k \in DOMAIN results }
    \cup CollectedIndexes \cup errLogged

\* C20: every dispatched Index is in exactly one place (jobs queue, a
\* worker, results queue, collected buffer, discarded as failed) and no
\* other Index is anywhere; so the buffer never holds an Index twice and
\* sorting it by Index has one result.
C20_Conservation ==
    /\ Cardinality(DispatchedIndexes) = Cardinality(dispatched)
    /\ IndexesInFlight \subseteq DispatchedIndexes
    /\ \A i \in DispatchedIndexes : PlacesOf(i) = 1
    /\ Cardinality(CollectedIndexes) = Len(collectedResults)
    /\ Cardinality(SortSlice(collectedResults)) = 1

\* Three Indexes in three places: one discarded, one collected, one held
\* by a worker.
C20_Witness ==
    /\ Cardinality(DispatchedIndexes) = 3
    /\ Cardinality(errLogged) = 1
    /\ Len(collectedResults) = 1
    /\ \E w \in 1..workers : wjob[w] # NoJob
    /\ jobs = << >> /\ results = << >>

=============================================================================
